---- MODULE Spec2Model ----
(***************************************************************************)
(* Model of scratchcloud/ext/api.py: the missing-value sentinel, the path  *)
(* extractor get_keys, the attribute guard of BaseScratchObject, the       *)
(* resources User / Project / Studio / Comment / Reply and the fetch       *)
(* operations of APIClient and of the resources.                           *)
(***************************************************************************)
EXTENDS Integers, Sequences, FiniteSets, TLC

VARIABLES
    heap,   \* the live objects: heap[i] is the instance with identity i
    call,   \* the outcome of the last operation the caller ran
    ncalls, \* how many operations the caller has run
    kin,    \* the arguments of a get_keys call under test
    kout,   \* its result
    tasks   \* the fetch_api coroutines on the event loop, each with its position

vars == <<heap, call, ncalls, kin, kout, tasks>>

(***************************************************************************)
(* Python values.  Every value is a record of one shape:                   *)
(*   t    the type: "dict" "list" "str" "int" "bool" "NoneType"            *)
(*        "NotFound" "ref" "type" "datetime" "CommentType"                 *)
(*   a    the text of a str, the name of a type or of an enum member       *)
(*   n    the number of an int / bool, the identity an object ref points to*)
(*   cs   the characters of a str, in order                                *)
(*   kids the items of a list (k = "") or the entries of a dict (k = key)  *)
(***************************************************************************)
Val(t, a, n, cs, kids) == [t |-> t, a |-> a, n |-> n, cs |-> cs, kids |-> kids]

Str(a, cs)  == Val("str", a, 0, cs, <<>>)
Num(n)      == Val("int", "", n, <<>>, <<>>)
Bool(n)     == Val("bool", "", n, <<>>, <<>>)
None        == Val("NoneType", "", 0, <<>>, <<>>)
Dict(kids)  == Val("dict", "", 0, <<>>, kids)
List(items) == Val("list", "", 0, <<>>, [i \in 1..Len(items) |-> [k |-> "", v |-> items[i]]])
Ref(id)     == Val("ref", "", id, <<>>, <<>>)
KV(k, v)    == [k |-> k, v |-> v]
\* a string key of a path: only its text matters to a dict lookup
Key(a)      == Str(a, <<>>)

\* class NotFound(): pass -- the instance get_keys has as its default
NotFound == Val("NotFound", "", 0, <<>>, <<>>)

\* isinstance(value, NotFound)
IsNotFound(v) == v.t = "NotFound"

\* len(v) of a list, a dict or a str
PyLen(v) == IF v.t = "str" THEN Len(v.cs) ELSE Len(v.kids)

Raise(exc) == [exc |-> exc, v |-> None]
Ok(v)      == [exc |-> "", v |-> v]

\* d[key]: the value, or the exception the subscription raises
Subscript(d, key) ==
    CASE d.t = "dict" ->
            IF key.t = "str" /\ \E i \in 1..Len(d.kids) : d.kids[i].k = key.a
            THEN Ok(d.kids[CHOOSE i \in 1..Len(d.kids) : d.kids[i].k = key.a].v)
            ELSE IF key.t \in {"list", "dict"} THEN Raise("TypeError")
            ELSE Raise("KeyError")
      [] d.t = "list" ->
            IF key.t \notin {"int", "bool"} THEN Raise("TypeError")
            ELSE IF key.n >= 0 /\ key.n < Len(d.kids) THEN Ok(d.kids[key.n + 1].v)
            ELSE IF key.n < 0 /\ key.n >= -Len(d.kids)
                 THEN Ok(d.kids[Len(d.kids) + key.n + 1].v)
            ELSE Raise("IndexError")
      [] d.t = "str" ->
            IF key.t \notin {"int", "bool"} THEN Raise("TypeError")
            ELSE IF key.n >= 0 /\ key.n < Len(d.cs)
                 THEN Ok(Str(d.cs[key.n + 1], <<d.cs[key.n + 1]>>))
            ELSE IF key.n < 0 /\ key.n >= -Len(d.cs)
                 THEN Ok(Str(d.cs[Len(d.cs) + key.n + 1], <<d.cs[Len(d.cs) + key.n + 1]>>))
            ELSE Raise("IndexError")
      [] OTHER -> Raise("TypeError")

RECURSIVE get_keys_from_keeps(_, _, _, _)
\* get_keys with "return d" in the except branch: the value reached so far
get_keys_from_keeps(d, keys, i, if_not_found) ==
    IF i > Len(keys) THEN d
    ELSE LET r == Subscript(d, keys[i])
         IN  IF r.exc # "" THEN d
             ELSE get_keys_from_keeps(r.v, keys, i + 1, if_not_found)

RECURSIVE get_keys_from(_, _, _, _)
\* the loop of get_keys from its i-th key on, d being the value reached so far
get_keys_from(d, keys, i, if_not_found) ==
    IF i > Len(keys) THEN d
    ELSE LET r == Subscript(d, keys[i])
         IN  IF r.exc # "" THEN if_not_found
             ELSE get_keys_from(r.v, keys, i + 1, if_not_found)

get_keys(d, keys) == get_keys_from(d, keys, 1, NotFound)

(***************************************************************************)
(* Objects.  An instance is [cls, dict]: its class and its __dict__.       *)
(***************************************************************************)
\* the APIClient every resource is built with (not itself a resource)
CLIENT == Ref(0)

NoAttrs == [x \in {} |-> None]

\* BaseScratchObject.__setattr__
SetAttr(o, name, value) ==
    IF ~(IsNotFound(value) /\ name \in DOMAIN o.dict)
    THEN [o EXCEPT !.dict = (name :> value) @@ o.dict]
    ELSE o

\* self.<name> = get_keys(data, path)
Assign(o, name, data, path) == SetAttr(o, name, get_keys(data, path))

\* type(value)
TypeOf(v) == Val("type", v.t, 0, <<>>, <<>>)

\* the str literals of the source
Lit_str      == Str("str", <<"s", "t", "r">>)
Lit_code     == Str("code", <<"c", "o", "d", "e">>)
Lit_NotFound == Str("NotFound", <<"N", "o", "t", "F", "o", "u", "n", "d">>)

\* the texts that match "%Y-%m-%dT%H:%M:%S.%f%z"
IsoTexts == {"2020-01-01T00:00:00.000Z", "2021-02-02T00:00:00.000Z"}

\* datetime.strptime(value, "%Y-%m-%dT%H:%M:%S.%f%z")
strptime(v) ==
    IF v.t = "str" /\ v.a \in IsoTexts
    THEN Ok(Val("datetime", v.a, 0, <<>>, <<>>))
    ELSE IF v.t = "str" THEN Raise("ValueError") ELSE Raise("TypeError")

\* self.<name> = get_keys(data, path)
\* if type(self.<name>) == 'str': self.<name> = datetime.strptime(self.<name>, ...)
AssignTime(o, name, data, path) ==
    LET o1 == Assign(o, name, data, path)
    IN  IF TypeOf(o1.dict[name]) = Lit_str
        THEN LET p == strptime(o1.dict[name])
             IN  IF p.exc # "" THEN [o |-> o1, exc |-> p.exc]
                 ELSE [o |-> SetAttr(o1, name, p.v), exc |-> ""]
        ELSE [o |-> o1, exc |-> ""]

Path1(a)       == <<Key(a)>>
Path2(a, b)    == <<Key(a), Key(b)>>
Path3(a, b, c) == <<Key(a), Key(b), Key(c)>>
Set(name, path)  == [k |-> "set", name |-> name, path |-> path]
Time(name, path) == [k |-> "time", name |-> name, path |-> path]
Author(path)     == [k |-> "author", name |-> "author", path |-> path]

\* the statements of User._update_all, in order
User_slots ==
    << Set("id", Path1("id")),
       Set("name", Path1("username")),
       Set("scratchteam", Path1("scratchteam")),
       Time("joined_at", Path2("history", "joined")),
       Set("image_90x90", Path3("profile", "images", "90x90")),
       Set("image_60x60", Path3("profile", "images", "60x60")),
       Set("image_55x55", Path3("profile", "images", "55x55")),
       Set("image_50x50", Path3("profile", "images", "50x50")),
       Set("image_32x32", Path3("profile", "images", "32x32")),
       Set("status", Path2("profile", "status")),
       Set("bio", Path2("profile", "bio")),
       Set("country", Path2("profile", "country")) >>

\* the statements of Comment._update_all after the back-reference
Comment_slots ==
    << Set("id", Path1("id")),
       Set("parent_id", Path1("parent_id")),
       Set("parent_author_id", Path1("commentee_id")),
       Set("content", Path1("content")),
       Time("created_at", Path1("datetime_created")),
       Time("modified_at", Path1("datetime_modified")),
       Set("visibility", Path1("visibility")),
       Set("reply_count", Path1("reply_count")),
       Author(Path1("author")) >>

\* the statements of Project._update_all, in order
Project_slots ==
    << Set("id", Path1("id")),
       Set("title", Path1("title")),
       Set("description", Path1("description")),
       Set("instructions", Path1("instructions")),
       Set("visibility", Path1("visibility")),
       Set("public", Path1("public")),
       Set("comments_allowed", Path1("comments_allowed")),
       Set("is_published", Path1("is_published")),
       Author(Path1("author")),
       Set("image", Path1("image")),
       Time("created_at", Path2("history", "created")),
       Time("modified_at", Path2("history", "modified")),
       Time("shared_at", Path2("history", "shared")),
       Set("views", Path2("stats", "views")),
       Set("loves", Path2("stats", "loves")),
       Set("favorites", Path2("stats", "favorites")),
       Set("remixes", Path2("stats", "remixes")),
       Set("remix_parent", Path2("remix", "parent")),
       Set("remix_root", Path2("remix", "root")) >>

\* the statements of Studio._update_all, in order
Studio_slots ==
    << Set("id", Path1("id")),
       Set("title", Path1("title")),
       Set("host_id", Path1("host")),
       Set("description", Path1("description")),
       Set("visibility", Path1("visibility")),
       Set("public", Path1("public")),
       Set("open_to_all", Path1("open_to_all")),
       Set("comments_allowed", Path1("comments_allowed")),
       Set("image", Path1("image")),
       Time("created_at", Path1("created")),
       Time("modified_at", Path1("modified")),
       Set("num_comments", Path1("comments")),
       Set("num_followers", Path1("followers")),
       Set("num_managers", Path1("managers")),
       Set("num_projects", Path1("projects")) >>

\* f(client, <named>, **data): the keyword arguments f receives in kwargs, or
\* the TypeError of a ** operand that is no mapping or repeats a parameter
Kwargs(params, named, data) ==
    IF data.t # "dict" THEN Raise("TypeError")
    ELSE IF \E i \in 1..Len(data.kids) :
                \/ data.kids[i].k \in params
                \/ \E j \in 1..Len(named) : named[j].k = data.kids[i].k
         THEN Raise("TypeError")
    ELSE Ok(Dict(named \o data.kids))

RECURSIVE Run(_, _, _, _, _)
\* the statements slots[i..] of an _update_all(data) on the instance h[id];
\* the result is the heap afterwards and the exception that ended it, if any
Run(h, id, data, slots, i) ==
    IF i > Len(slots) THEN [h |-> h, exc |-> ""]
    ELSE LET s == slots[i]
         IN  CASE s.k = "set" ->
                    Run([h EXCEPT ![id] = Assign(@, s.name, data, s.path)],
                        id, data, slots, i + 1)
               [] s.k = "time" ->
                    LET r == AssignTime(h[id], s.name, data, s.path)
                    IN  IF r.exc # "" THEN [h |-> [h EXCEPT ![id] = r.o], exc |-> r.exc]
                        ELSE Run([h EXCEPT ![id] = r.o], id, data, slots, i + 1)
               [] s.k = "author" ->
                    \* self.author = Author(self.client, **get_keys(data, ['author']))
                    LET kw == Kwargs({"self", "client"}, <<>>, get_keys(data, s.path))
                        a  == Len(h) + 1
                        h1 == Append(h, SetAttr([cls |-> "Author", dict |-> NoAttrs],
                                                "client", h[id].dict["client"]))
                    IN  IF kw.exc # "" THEN [h |-> h, exc |-> kw.exc]
                        ELSE LET r == Run(h1, a, kw.v, User_slots, 1)
                             IN  IF r.exc # "" THEN [h |-> h, exc |-> r.exc]
                                 ELSE Run([r.h EXCEPT ![id] = SetAttr(@, s.name, Ref(a))],
                                          id, data, slots, i + 1)

User_update_all(h, id, data)    == Run(h, id, data, User_slots, 1)
Project_update_all(h, id, data) == Run(h, id, data, Project_slots, 1)
Studio_update_all(h, id, data)  == Run(h, id, data, Studio_slots, 1)

\* Comment._update_all: the back-reference its comment_type selects, then the rest
Comment_update_all(h, id, data) ==
    LET ct == h[id].dict["comment_type"]
        o1 == IF ct.n = 0 THEN Assign(h[id], "project", data, Path1("project")) ELSE h[id]
        o2 == IF ct.n = 1 THEN Assign(o1, "studio", data, Path1("studio")) ELSE o1
    IN  Run([h EXCEPT ![id] = o2], id, data, Comment_slots, 1)

(***************************************************************************)
(* Constructors.  Each returns the heap with the new instance, its         *)
(* identity, and the exception that ended the construction, if any (the    *)
(* instance is then never bound to a name and the heap is as before).      *)
(***************************************************************************)
Built(h0, r, id) ==
    IF r.exc # "" THEN [h |-> h0, exc |-> r.exc, id |-> 0]
    ELSE [h |-> r.h, exc |-> "", id |-> id]

Failed(h0, exc) == [h |-> h0, exc |-> exc, id |-> 0]

\* the enum CommentType: Project = 0, Studio = 1, Profile = 2
CommentType(n) ==
    Val("CommentType", CASE n = 0 -> "Project" [] n = 1 -> "Studio" [] OTHER -> "Profile",
        n, <<>>, <<>>)

\* cls(client, **data) for User, Author, StudioUser: User.__init__
User_init(h, cls, data) ==
    LET kw == Kwargs({"self", "client"}, <<>>, data)
        id == Len(h) + 1
        h1 == Append(h, SetAttr([cls |-> cls, dict |-> NoAttrs], "client", CLIENT))
    IN  IF kw.exc # "" THEN Failed(h, kw.exc)
        ELSE Built(h, User_update_all(h1, id, kw.v), id)

\* Project.__init__ given its kwargs
Project_init_kw(h, cls, kwargs) ==
    LET id == Len(h) + 1
        o1 == SetAttr([cls |-> cls, dict |-> NoAttrs], "client", CLIENT)
        o2 == SetAttr(o1, "project_json", None)
    IN  Built(h, Project_update_all(Append(h, o2), id, kwargs), id)

\* cls(client, **data) for Project: Project.__init__
Project_init(h, cls, data) ==
    LET kw == Kwargs({"self", "client"}, <<>>, data)
    IN  IF kw.exc # "" THEN Failed(h, kw.exc) ELSE Project_init_kw(h, cls, kw.v)

\* Studio(client, **data): Studio.__init__
Studio_init(h, cls, data) ==
    LET kw == Kwargs({"self", "client"}, <<>>, data)
        id == Len(h) + 1
        h1 == Append(h, SetAttr([cls |-> cls, dict |-> NoAttrs], "client", CLIENT))
    IN  IF kw.exc # "" THEN Failed(h, kw.exc)
        ELSE Built(h, Studio_update_all(h1, id, kw.v), id)

\* cls(client, comment_type, <named>, **data) for Comment, Reply: Comment.__init__
Comment_init(h, cls, comment_type, named, data) ==
    LET kw == Kwargs({"self", "client", "comment_type"}, named, data)
        id == Len(h) + 1
        o1 == SetAttr([cls |-> cls, dict |-> NoAttrs], "client", CLIENT)
        o2 == SetAttr(o1, "comment_type", comment_type)
    IN  IF kw.exc # "" THEN Failed(h, kw.exc)
        ELSE Built(h, Comment_update_all(Append(h, o2), id, kw.v), id)

\* the first of the subscriptions d[keys[1]], d[keys[2]], ... that raises
FirstRaise(d, keys) ==
    IF \E i \in 1..Len(keys) : Subscript(d, keys[i]).exc # ""
    THEN Subscript(d, keys[CHOOSE i \in 1..Len(keys) :
                            /\ Subscript(d, keys[i]).exc # ""
                            /\ \A j \in 1..(i - 1) : Subscript(d, keys[j]).exc = ""]).exc
    ELSE ""

\* the StudioProject that Studio.fetch_projects builds from the element proj
StudioProject_init(h, proj) ==
    LET exc == FirstRaise(proj, <<Key("id"), Key("title"), Key("image"),
                                  Key("creator_id"), Key("username")>>)
    IN  IF exc # "" THEN Failed(h, exc)
        ELSE Project_init_kw(h, "StudioProject",
                Dict(<< KV("id", Subscript(proj, Key("id")).v),
                        KV("title", Subscript(proj, Key("title")).v),
                        KV("image", Subscript(proj, Key("image")).v),
                        KV("author", Dict(<< KV("id", Subscript(proj, Key("creator_id")).v),
                                             KV("username", Subscript(proj, Key("username")).v) >>))
                     >>))

\* for x in data: the elements the loop visits, or the TypeError of iter(data)
Iterate(data) ==
    CASE data.t = "list" -> Ok(List([i \in 1..Len(data.kids) |-> data.kids[i].v]))
      [] data.t = "dict" -> Ok(List([i \in 1..Len(data.kids) |-> Key(data.kids[i].k)]))
      [] data.t = "str"  -> Ok(List([i \in 1..Len(data.cs) |-> Str(data.cs[i], <<data.cs[i]>>)]))
      [] OTHER -> Raise("TypeError")

\* the constructor call in the body of a list operation's loop
Construct(h, make, item) ==
    CASE make.f = "User"    -> User_init(h, make.cls, item)
      [] make.f = "Project" -> Project_init(h, make.cls, item)
      [] make.f = "StudioProject" -> StudioProject_init(h, item)
      [] make.f = "Comment" -> Comment_init(h, make.cls, make.ct, make.named, item)

RECURSIVE BuildEach(_, _, _, _, _, _)
\* xs.append(r) for the instance r just built, then the rest of the loop
Appended(h0, make, items, i, ids, r) ==
    IF r.exc # "" THEN [h |-> h0, exc |-> r.exc, ret |-> None]
    ELSE BuildEach(h0, r.h, make, items, i + 1, Append(ids, Ref(r.id)))

\* xs = []; for item in items: xs.append(<constructor>(item)); return xs
BuildEach(h0, h, make, items, i, ids) ==
    IF i > Len(items) THEN [h |-> h, exc |-> "", ret |-> List(ids)]
    ELSE Appended(h0, make, items, i, ids, Construct(h, make, items[i]))

\* a list operation once the body is decoded
BuildList(h, make, data) ==
    LET it == Iterate(data)
    IN  IF it.exc # "" THEN [h |-> h, exc |-> it.exc, ret |-> None]
        ELSE BuildEach(h, h, make, [i \in 1..Len(it.v.kids) |-> it.v.kids[i].v], 1, <<>>)

\* x in data
In(x, data) ==
    CASE data.t = "dict" -> Ok(Bool(IF \E i \in 1..Len(data.kids) : data.kids[i].k = x.a
                                    THEN 1 ELSE 0))
      [] data.t = "list" -> Ok(Bool(IF \E i \in 1..Len(data.kids) :
                                          /\ data.kids[i].v.t = "str"
                                          /\ data.kids[i].v.a = x.a
                                    THEN 1 ELSE 0))
      [] data.t = "str"  -> Ok(Bool(IF \E i \in 0..(Len(data.cs) - Len(x.cs)) :
                                          SubSeq(data.cs, i + 1, i + Len(x.cs)) = x.cs
                                    THEN 1 ELSE 0))
      [] OTHER -> Raise("TypeError")

\* a fetch without the two lines of the not-found check
RaiseIfNotFound_absent(data) == ""

\* if 'code' in data: if data['code'] == 'NotFound': raise NotFoundError()
\* -- the exception these two lines end with, if any
RaiseIfNotFound(data) ==
    LET in == In(Lit_code, data)
    IN  IF in.exc # "" THEN in.exc
        ELSE IF in.v.n = 0 THEN ""
        ELSE LET c == Subscript(data, Lit_code)
             IN  IF c.exc # "" THEN c.exc
                 ELSE IF c.v.t = "str" /\ c.v.a = Lit_NotFound.a THEN "NotFoundError"
                 ELSE ""

(***************************************************************************)
(* The decoded response bodies the transport hands back.                   *)
(***************************************************************************)
S_al == Str("al", <<"a", "l">>)
S_bo == Str("bo", <<"b", "o">>)
S_hi == Str("hi", <<"h", "i">>)
S_yo == Str("yo", <<"y", "o">>)
S_img == Str("i.png", <<"i", ".", "p", "n", "g">>)
S_vis == Str("visible", <<"v", "i", "s", "i", "b", "l", "e">>)
S_msg == Str("gone", <<"g", "o", "n", "e">>)
T1 == Str("2020-01-01T00:00:00.000Z", <<"2", "0", "2", "0", "-", "0", "1", "-", "0", "1", "T", "0", "0", ":", "0", "0", ":", "0", "0", ".", "0", "0", "0", "Z">>)
T2 == Str("2021-02-02T00:00:00.000Z", <<"2", "0", "2", "1", "-", "0", "2", "-", "0", "2", "T", "0", "0", ":", "0", "0", ":", "0", "0", ".", "0", "0", "0", "Z">>)

\* the API's soft-failure body
NotFoundBody == Dict(<<KV("code", Lit_NotFound), KV("message", S_msg)>>)

UserFull ==
    Dict(<< KV("id", Num(1)), KV("username", S_al), KV("scratchteam", Bool(0)),
            KV("history", Dict(<<KV("joined", T1)>>)),
            KV("profile", Dict(<< KV("id", Num(1)),
                                  KV("images", Dict(<< KV("90x90", S_img), KV("60x60", S_img),
                                                       KV("55x55", S_img), KV("50x50", S_img),
                                                       KV("32x32", S_img) >>)),
                                  KV("status", S_hi), KV("bio", S_hi),
                                  KV("country", S_yo) >>)) >>)

\* a user as a narrower endpoint gives it: no profile
UserNarrow ==
    Dict(<< KV("id", Num(1)), KV("username", S_al), KV("history", Dict(<<KV("joined", T2)>>)) >>)

\* the author stub nested in projects and comments
AuthorStub == Dict(<< KV("id", Num(2)), KV("username", S_bo) >>)

ProjectFull ==
    Dict(<< KV("id", Num(7)), KV("title", S_hi), KV("description", S_yo),
            KV("instructions", S_yo), KV("visibility", S_vis), KV("public", Bool(1)),
            KV("comments_allowed", Bool(1)), KV("is_published", Bool(1)),
            KV("author", AuthorStub), KV("image", S_img),
            KV("history", Dict(<< KV("created", T1), KV("modified", T2), KV("shared", T2) >>)),
            KV("stats", Dict(<< KV("views", Num(5)), KV("loves", Num(4)),
                                KV("favorites", Num(3)), KV("remixes", Num(0)) >>)),
            KV("remix", Dict(<< KV("parent", None), KV("root", None) >>)) >>)

\* a project whose body carries no author object
ProjectNoAuthor ==
    Dict(<< KV("id", Num(7)), KV("title", S_yo), KV("image", S_img),
            KV("history", Dict(<< KV("created", T1) >>)),
            KV("stats", Dict(<< KV("views", Num(6)) >>)) >>)

StudioFull ==
    Dict(<< KV("id", Num(3)), KV("title", S_hi), KV("host", Num(1)), KV("description", S_yo),
            KV("visibility", S_vis), KV("public", Bool(1)), KV("open_to_all", Bool(0)),
            KV("comments_allowed", Bool(1)), KV("image", S_img),
            KV("history", Dict(<< KV("created", T1), KV("modified", T2) >>)),
            KV("stats", Dict(<< KV("comments", Num(1)), KV("followers", Num(2)),
                                KV("managers", Num(1)), KV("projects", Num(1)) >>)) >>)

\* a studio body with the timestamps and counters where _update_all reads them
StudioFlat ==
    Dict(<< KV("id", Num(3)), KV("title", S_yo), KV("created", T1), KV("modified", T2),
            KV("comments", Num(1)), KV("followers", Num(2)) >>)

\* an element of the studio-projects listing
StudioProjectItem ==
    Dict(<< KV("id", Num(7)), KV("title", S_hi), KV("image", S_img),
            KV("creator_id", Num(2)), KV("username", S_bo) >>)

CommentFull ==
    Dict(<< KV("id", Num(11)), KV("parent_id", None), KV("commentee_id", None),
            KV("content", S_hi), KV("datetime_created", T1), KV("datetime_modified", T1),
            KV("visibility", S_vis), KV("author", AuthorStub), KV("reply_count", Num(1)) >>)

\* a comment whose body carries no author object
CommentNoAuthor ==
    Dict(<< KV("id", Num(11)), KV("content", S_yo), KV("datetime_modified", T2) >>)

Content1 ==
    Dict(<< KV("targets", List(<< Dict(<< KV("blocks", Dict(<< KV("a", None), KV("b", None) >>)) >>),
                                  Dict(<< KV("blocks", Dict(<< KV("c", None) >>)) >>) >>)) >>)

Content2 == Dict(<< KV("targets", List(<< Dict(<< KV("blocks", Dict(<<>>)) >>) >>)) >>)

CountBody == Dict(<< KV("count", Num(3)) >>)

UserBodies        == {UserFull, UserNarrow, NotFoundBody}
ProjectBodies     == {ProjectFull, ProjectNoAuthor, NotFoundBody}
StudioBodies      == {StudioFull, StudioFlat, NotFoundBody}
CountBodies       == {CountBody, NotFoundBody, Dict(<< KV("code", S_hi) >>)}
UserListBodies    == {List(<<UserNarrow>>), NotFoundBody}
ProjectListBodies == {List(<<ProjectFull>>), List(<<ProjectFull, ProjectNoAuthor>>), NotFoundBody}
CommentListBodies == {List(<<CommentFull>>), List(<<CommentNoAuthor>>), NotFoundBody}
StudioProjectListBodies == {List(<<StudioProjectItem>>), NotFoundBody}
ContentBodies     == {Content1, Content2}
CommentBodies     == {CommentFull, CommentNoAuthor}

(***************************************************************************)
(* The operations.  Each action is one call by the caller, run to its      *)
(* return or its exception, against one response body of the transport.    *)
(***************************************************************************)
MaxCalls == 3

NoCall == [op |-> "", self |-> 0, body |-> None, gets |-> <<>>, raised |-> "", ret |-> None]

Init ==
    /\ heap = <<>>
    /\ call = NoCall
    /\ ncalls = 0
    /\ kin = [d |-> None, keys |-> <<>>]
    /\ kout = [done |-> FALSE, v |-> None]
    /\ tasks = <<>>

\* the call ends: what it left on the heap, what it raised or returned, and
\* the endpoint templates it issued a GET against
Finish(op, self, gets, body, h, exc, ret) ==
    /\ heap' = h
    /\ call' = [op |-> op, self |-> self, body |-> body, gets |-> gets,
                raised |-> exc, ret |-> IF exc # "" THEN None ELSE ret]
    /\ ncalls' = ncalls + 1
    /\ UNCHANGED <<kin, kout, tasks>>

Instances(classes) == {i \in DOMAIN heap : heap[i].cls \in classes}
Users    == Instances({"User", "Author", "StudioUser"})
Projects == Instances({"Project", "StudioProject"})
Studios  == Instances({"Studio"})
Comments == Instances({"Comment", "Reply"})

\* a top-level fetch of one resource: the not-found check, then the constructor
FetchOne(op, tmpl, body, r) ==
    LET nf == RaiseIfNotFound(body)
    IN  IF nf # "" THEN Finish(op, 0, <<tmpl>>, body, heap, nf, None)
        ELSE Finish(op, 0, <<tmpl>>, body, r.h, r.exc, Ref(r.id))

\* APIClient.fetch_user
fetch_user ==
    /\ ncalls < MaxCalls
    /\ \E body \in UserBodies :
        FetchOne("fetch_user", "users/{}", body, User_init(heap, "User", body))

\* APIClient.fetch_project
fetch_project ==
    /\ ncalls < MaxCalls
    /\ \E body \in ProjectBodies :
        FetchOne("fetch_project", "users/{}/projects/{}", body,
                 Project_init(heap, "Project", body))

\* APIClient.fetch_studio
fetch_studio ==
    /\ ncalls < MaxCalls
    /\ \E body \in StudioBodies :
        FetchOne("fetch_studio", "{}", body, Studio_init(heap, "Studio", body))

\* APIClient.fetch_message_count
fetch_message_count ==
    /\ ncalls < MaxCalls
    /\ \E body \in CountBodies :
        LET nf == RaiseIfNotFound(body)
            c  == Subscript(body, Key("count"))
        IN  Finish("fetch_message_count", 0, <<"users/{}/messages/count">>, body, heap,
                   IF nf # "" THEN nf ELSE c.exc, c.v)

\* a fetch_api that decodes the body and merges it
Refresh(op, self, tmpl, body, r) ==
    Finish(op, self, <<tmpl>>, body, r.h, r.exc, None)

\* a list operation: decode the body, build one instance per element
Returned(op, self, tmpl, body, r) ==
    Finish(op, self, <<tmpl>>, body, r.h, r.exc, r.ret)

FetchList(op, self, tmpl, body, make) ==
    Returned(op, self, tmpl, body, BuildList(heap, make, body))

MakeUser(cls)    == [f |-> "User", cls |-> cls, ct |-> None, named |-> <<>>]
MakeProject(cls) == [f |-> "Project", cls |-> cls, ct |-> None, named |-> <<>>]
MakeStudioProject == [f |-> "StudioProject", cls |-> "StudioProject", ct |-> None, named |-> <<>>]
MakeComment(cls, ct, named) == [f |-> "Comment", cls |-> cls, ct |-> ct, named |-> named]

\* User.fetch_api
User_fetch_api ==
    /\ ncalls < MaxCalls
    /\ \E self \in Users, body \in UserBodies :
        Refresh("User.fetch_api", self, "users/{}", body, User_update_all(heap, self, body))

\* User.fetch_favorites
User_fetch_favorites ==
    /\ ncalls < MaxCalls
    /\ \E self \in Users, body \in ProjectListBodies :
        FetchList("User.fetch_favorites", self, "users/{}/favorites", body, MakeProject("Project"))

\* User.fetch_followers
User_fetch_followers ==
    /\ ncalls < MaxCalls
    /\ \E self \in Users, body \in UserListBodies :
        FetchList("User.fetch_followers", self, "users/{}/followers", body, MakeUser("User"))

\* User.fetch_following
User_fetch_following ==
    /\ ncalls < MaxCalls
    /\ \E self \in Users, body \in UserListBodies :
        FetchList("User.fetch_following", self, "users/{}/following", body, MakeUser("User"))

\* User.fetch_projects
User_fetch_projects ==
    /\ ncalls < MaxCalls
    /\ \E self \in Users, body \in ProjectListBodies :
        FetchList("User.fetch_projects", self, "users/{}/projects", body, MakeProject("Project"))

\* Project.fetch_api
Project_fetch_api ==
    /\ ncalls < MaxCalls
    /\ \E self \in Projects, body \in ProjectBodies :
        Refresh("Project.fetch_api", self, "projects/{}", body,
                Project_update_all(heap, self, body))

\* Project.fetch_comments
Project_fetch_comments ==
    /\ ncalls < MaxCalls
    /\ \E self \in Projects, body \in CommentListBodies :
        FetchList("Project.fetch_comments", self, "users/{}/projects/{}/comments", body,
                  MakeComment("Comment", CommentType(0), <<KV("project", Ref(self))>>))

\* len(v), or its TypeError
LenOf(v) == IF v.t \in {"list", "dict", "str"} THEN Ok(Num(PyLen(v))) ELSE Raise("TypeError")

RECURSIVE SumBlocks(_, _, _)
\* for sprite in sprites[i..]: blocks += len(sprite['blocks'])
SumBlocks(sprites, i, blocks) ==
    IF i > Len(sprites) THEN Ok(Num(blocks))
    ELSE LET b == Subscript(sprites[i], Key("blocks"))
             n == LenOf(b.v)
         IN  IF b.exc # "" THEN Raise(b.exc)
             ELSE IF n.exc # "" THEN Raise(n.exc)
             ELSE SumBlocks(sprites, i + 1, blocks + n.v.n)

\* the body of fetch_block_count after its fetch_project_json
CountBlocks(project) ==
    LET t  == Subscript(project, Key("targets"))
        it == Iterate(t.v)
    IN  IF t.exc # "" THEN Raise(t.exc)
        ELSE IF it.exc # "" THEN Raise(it.exc)
        ELSE SumBlocks([i \in 1..Len(it.v.kids) |-> it.v.kids[i].v], 1, 0)

\* the body of fetch_sprite_count after its fetch_project_json
CountSprites(project) ==
    LET t == Subscript(project, Key("targets"))
    IN  IF t.exc # "" THEN Raise(t.exc) ELSE LenOf(t.v)

\* the assignment of Project.fetch_project_json: self.project_json = data
StoreContent(h, self, data) == [h EXCEPT ![self] = SetAttr(@, "project_json", data)]

\* Project.fetch_project_json run on the instance self
FetchProjectJson(h, self, body) ==
    [h |-> StoreContent(h, self, body), gets |-> <<"projects.scratch.mit.edu/{}">>, v |-> body]

\* Project.fetch_project_json
Project_fetch_project_json ==
    /\ ncalls < MaxCalls
    /\ \E self \in Projects, body \in ContentBodies :
        LET j == FetchProjectJson(heap, self, body)
        IN  Finish("Project.fetch_project_json", self, j.gets, body, j.h, "", j.v)

\* Project.fetch_block_count
Project_fetch_block_count ==
    /\ ncalls < MaxCalls
    /\ \E self \in Projects, body \in ContentBodies :
        LET j == FetchProjectJson(heap, self, body)
            r == CountBlocks(j.v)
        IN  Finish("Project.fetch_block_count", self, j.gets, body, j.h, r.exc, r.v)

\* Project.fetch_sprite_count
Project_fetch_sprite_count ==
    /\ ncalls < MaxCalls
    /\ \E self \in Projects, body \in ContentBodies :
        LET j == FetchProjectJson(heap, self, body)
            r == CountSprites(j.v)
        IN  Finish("Project.fetch_sprite_count", self, j.gets, body, j.h, r.exc, r.v)

\* response.json() called: the coroutine that decodes the body
JsonCall(body) == Val("coroutine", "json", 0, <<>>, <<KV("", body)>>)

\* response.json not called: the bound method itself
JsonMethod(body) == Val("method", "json", 0, <<>>, <<>>)

\* await x: the result of an awaitable, the TypeError of anything else
Await(x) == IF x.t = "coroutine" THEN Ok(x.kids[1].v) ELSE Raise("TypeError")

\* Studio.fetch_api: data = await data.json; self._update_all(data)
Studio_fetch_api_body(h, self, body) ==
    LET data == Await(JsonMethod(body))
    IN  IF data.exc # "" THEN [h |-> h, exc |-> data.exc]
        ELSE Studio_update_all(h, self, data.v)

\* Studio.fetch_api
Studio_fetch_api ==
    /\ ncalls < MaxCalls
    /\ \E self \in Studios, body \in StudioBodies :
        Refresh("Studio.fetch_api", self, "studios/{}", body,
                Studio_fetch_api_body(heap, self, body))

\* Studio.fetch_projects
Studio_fetch_projects ==
    /\ ncalls < MaxCalls
    /\ \E self \in Studios, body \in StudioProjectListBodies :
        FetchList("Studio.fetch_projects", self, "studios/{}/projects/", body, MakeStudioProject)

\* Studio.fetch_comments
Studio_fetch_comments ==
    /\ ncalls < MaxCalls
    /\ \E self \in Studios, body \in CommentListBodies :
        FetchList("Studio.fetch_comments", self, "studios/{}/comments", body,
                  MakeComment("Comment", CommentType(1), <<KV("studio", Ref(self))>>))

\* Studio.fetch_managers
Studio_fetch_managers ==
    /\ ncalls < MaxCalls
    /\ \E self \in Studios, body \in UserListBodies :
        FetchList("Studio.fetch_managers", self, "studios/{}/managers/", body,
                  MakeUser("StudioUser"))

\* Studio.fetch_curators
Studio_fetch_curators ==
    /\ ncalls < MaxCalls
    /\ \E self \in Studios, body \in UserListBodies :
        FetchList("Studio.fetch_curators", self, "studios/{}/curators/", body,
                  MakeUser("StudioUser"))

\* v.<name> where v is whatever an attribute holds
GetAttr(h, v, name) ==
    IF v.t = "ref" /\ v.n \in DOMAIN h /\ name \in DOMAIN h[v.n].dict
    THEN Ok(h[v.n].dict[name])
    ELSE Raise("AttributeError")

ProjectReplies == "users/{}/projects/{}/comments/{}/replies"
StudioReplies  == "studios/{}/comments/{}/replies"

\* fetch_replies with the project template in both branches
RepliesPath_oneTemplate(h, self) ==
    LET ct == h[self].dict["comment_type"]
        b  == IF ct.n = 0 THEN "project" ELSE "studio"
    IN  IF ct.n \notin {0, 1} THEN Raise("UnboundLocalError")
        ELSE IF GetAttr(h, h[self].dict[b], "id").exc # "" THEN Raise("AttributeError")
        ELSE Ok(Key(ProjectReplies))

\* the PATH that Comment.fetch_replies builds, or the exception of building it
\* (with neither branch taken PATH is unbound when the GET reads it)
RepliesPath(h, self) ==
    LET ct == h[self].dict["comment_type"]
    IN  CASE ct.n = 0 ->
                LET p == h[self].dict["project"]
                    a == GetAttr(h, p, "author")
                    n == GetAttr(h, a.v, "name")
                    i == GetAttr(h, p, "id")
                IN  IF a.exc # "" THEN Raise(a.exc)
                    ELSE IF n.exc # "" THEN Raise(n.exc)
                    ELSE IF i.exc # "" THEN Raise(i.exc)
                    ELSE Ok(Key(ProjectReplies))
          [] ct.n = 1 ->
                LET i == GetAttr(h, h[self].dict["studio"], "id")
                IN  IF i.exc # "" THEN Raise(i.exc) ELSE Ok(Key(StudioReplies))
          [] OTHER -> Raise("UnboundLocalError")

\* fetch_replies building every Reply with CommentType(0)
MakeReply_projectKind(h, self) ==
    LET ct == h[self].dict["comment_type"]
    IN  MakeComment("Reply", CommentType(0),
                    CASE ct.n = 0 -> <<KV("project", h[self].dict["project"])>>
                      [] ct.n = 1 -> <<KV("studio", h[self].dict["studio"])>>
                      [] OTHER -> <<>>)

\* the Reply constructor of the loop of Comment.fetch_replies
MakeReply(h, self) ==
    LET ct == h[self].dict["comment_type"]
    IN  MakeComment("Reply", ct,
                    CASE ct.n = 0 -> <<KV("project", h[self].dict["project"])>>
                      [] ct.n = 1 -> <<KV("studio", h[self].dict["studio"])>>
                      [] OTHER -> <<>>)

\* Comment.fetch_replies
Comment_fetch_replies ==
    /\ ncalls < MaxCalls
    /\ \E self \in Comments, body \in CommentListBodies :
        LET path == RepliesPath(heap, self)
        IN  IF path.exc # ""
            THEN Finish("Comment.fetch_replies", self, <<>>, None, heap, path.exc, None)
            ELSE FetchList("Comment.fetch_replies", self, path.v.a, body, MakeReply(heap, self))

\* the back-reference keyword a caller may pass to Comment(...)
BackRefs(n) ==
    {<<>>} \cup (CASE n = 0 -> {<<KV("project", Ref(p))>> : p \in Projects}
                   [] n = 1 -> {<<KV("studio", Ref(st))>> : st \in Studios}
                   [] OTHER -> {})

\* Comment(client, comment_type, **kwargs) called by the caller
Comment_new ==
    /\ ncalls < MaxCalls
    /\ \E n \in 0..2, body \in CommentBodies :
        \E named \in BackRefs(n) :
            LET r == Comment_init(heap, "Comment", CommentType(n), named, body)
            IN  Finish("Comment", 0, <<>>, body, r.h, r.exc, Ref(r.id))

\* Comment._update_all called on a comment with a later body
Comment_merge ==
    /\ ncalls < MaxCalls
    /\ \E self \in Comments, body \in CommentBodies :
        LET r == Comment_update_all(heap, self, body)
        IN  Finish("Comment._update_all", self, <<>>, body, r.h, r.exc, None)

Next ==
    \/ fetch_user
    \/ fetch_project
    \/ fetch_studio
    \/ fetch_message_count
    \/ User_fetch_api
    \/ User_fetch_favorites
    \/ User_fetch_followers
    \/ User_fetch_following
    \/ User_fetch_projects
    \/ Project_fetch_api
    \/ Project_fetch_comments
    \/ Project_fetch_project_json
    \/ Project_fetch_block_count
    \/ Project_fetch_sprite_count
    \/ Studio_fetch_api
    \/ Studio_fetch_projects
    \/ Studio_fetch_comments
    \/ Studio_fetch_managers
    \/ Studio_fetch_curators
    \/ Comment_fetch_replies
    \/ Comment_new
    \/ Comment_merge

Spec == Init /\ [][Next]_vars

(***************************************************************************)
(* get_keys on its own: the documents and paths it is applied to.          *)
(***************************************************************************)
MaxPathLen == 3

KeyDocs ==
    { Dict(<<KV("a", Dict(<<KV("b", List(<<Str("xy", <<"x", "y">>), Num(7)>>))>>)),
             KV("b", None)>>),
      List(<<Str("ab", <<"a", "b">>), Dict(<<KV("a", Num(1))>>)>>),
      Dict(<<KV("a", Dict(<<KV("a", Dict(<<KV("a", Num(5)), KV("b", Bool(0))>>))>>))>>),
      Str("b", <<"b">>),
      Num(3) }

KeySet == { Key("a"), Key("b"), Num(0), Num(1), Num(-1) }

KeyPaths == UNION { [1..m -> KeySet] : m \in 0..MaxPathLen }

InitKeys ==
    /\ heap = <<>>
    /\ call = NoCall
    /\ ncalls = 0
    /\ kin \in [d : KeyDocs, keys : KeyPaths]
    /\ kout = [done |-> FALSE, v |-> None]
    /\ tasks = <<>>

\* the caller runs get_keys(d, keys) with the default if_not_found
GetKeysCall ==
    /\ ~kout.done
    /\ kout' = [done |-> TRUE, v |-> get_keys(kin.d, kin.keys)]
    /\ UNCHANGED <<heap, call, ncalls, kin, tasks>>

NextKeys == GetKeysCall

SpecKeys == InitKeys /\ [][NextKeys]_vars

(***************************************************************************)
(* User.fetch_api as coroutines on one event loop.  A coroutine runs from   *)
(* one await to the next without yielding; tasks[t] is the position of the *)
(* coroutine t, the response it holds and the statement of _update_all it  *)
(* is at.                                                                   *)
(***************************************************************************)
MaxTasks == 2

Tasks == 1..MaxTasks

\* a second full user, every field different from UserFull
UserOther ==
    Dict(<< KV("id", Num(2)), KV("username", S_bo), KV("scratchteam", Bool(1)),
            KV("history", Dict(<<KV("joined", T2)>>)),
            KV("profile", Dict(<< KV("id", Num(2)),
                                  KV("images", Dict(<< KV("90x90", S_vis), KV("60x60", S_vis),
                                                       KV("55x55", S_vis), KV("50x50", S_vis),
                                                       KV("32x32", S_vis) >>)),
                                  KV("status", S_yo), KV("bio", S_yo),
                                  KV("country", S_hi) >>)) >>)

T3 == Str("2022-03-03T00:00:00.000Z", <<"2", "0", "2", "2", "-", "0", "3", "-", "0", "3", "T", "0", "0", ":", "0", "0", ":", "0", "0", ".", "0", "0", "0", "Z">>)

\* a third user as a narrower endpoint gives it: no profile
UserBrief ==
    Dict(<< KV("id", Num(3)), KV("username", S_hi), KV("history", Dict(<<KV("joined", T3)>>)) >>)

\* no two of them agree on the value of a field, so a field's value tells
\* the response it came from
RefreshBodies == {UserFull, UserOther, UserBrief}

\* not called, or returned: data is the response the last call merged
Idle(data) == [pc |-> "idle", self |-> 0, data |-> data, i |-> 0, met |-> FALSE]

\* the positions at which fetch_api is suspended in an await
Awaits_everyStatement == {"get", "json", "merge"}
Awaits == {"get", "json"}

\* the event loop can run the coroutine t: no other coroutine is between awaits
Scheduled(t) == \A u \in Tasks \ {t} : tasks[u].pc \in Awaits \cup {"idle"}

\* some other fetch_api call is in flight
Overlaps(t) == \E u \in Tasks \ {t} : tasks[u].pc # "idle"

InitTasks ==
    /\ \E body \in RefreshBodies : heap = User_init(<<>>, "User", body).h
    /\ call = NoCall
    /\ ncalls = 0
    /\ kin = [d |-> None, keys |-> <<>>]
    /\ kout = [done |-> FALSE, v |-> None]
    /\ tasks = [t \in Tasks |-> Idle(None)]

\* fetch_api is called: it issues the GET and suspends in the await
fetch_api_get(t) ==
    /\ tasks[t].pc = "idle"
    /\ Scheduled(t)
    /\ \E self \in Users :
        tasks' = [tasks EXCEPT ![t] = [pc |-> "get", self |-> self, data |-> None, i |-> 0,
                                       met |-> Overlaps(t)]]
    /\ UNCHANGED <<heap, call, ncalls, kin, kout>>

\* the response arrives: the coroutine resumes, calls data.json() and suspends
fetch_api_json(t) ==
    /\ tasks[t].pc = "get"
    /\ Scheduled(t)
    /\ \E body \in RefreshBodies :
        tasks' = [tasks EXCEPT ![t] = [@ EXCEPT !.pc = "json", !.data = body,
                                                !.met = @ \/ Overlaps(t)]]
    /\ UNCHANGED <<heap, call, ncalls, kin, kout>>

\* the body is decoded: the coroutine resumes and enters _update_all(data)
fetch_api_update_all(t) ==
    /\ tasks[t].pc = "json"
    /\ Scheduled(t)
    /\ tasks' = [tasks EXCEPT ![t] = [@ EXCEPT !.pc = "merge", !.i = 1,
                                              !.met = @ \/ Overlaps(t)]]
    /\ UNCHANGED <<heap, call, ncalls, kin, kout>>

\* the next statement of _update_all
update_all_statement(t) ==
    /\ tasks[t].pc = "merge"
    /\ tasks[t].i <= Len(User_slots)
    /\ Scheduled(t)
    /\ heap' = Run(heap, tasks[t].self, tasks[t].data, <<User_slots[tasks[t].i]>>, 1).h
    /\ tasks' = [tasks EXCEPT ![t] = [@ EXCEPT !.i = @ + 1, !.met = @ \/ Overlaps(t)]]
    /\ UNCHANGED <<call, ncalls, kin, kout>>

\* _update_all and fetch_api return
fetch_api_return(t) ==
    /\ tasks[t].pc = "merge"
    /\ tasks[t].i > Len(User_slots)
    /\ Scheduled(t)
    /\ tasks' = [tasks EXCEPT ![t] = [@ EXCEPT !.pc = "idle", !.i = 0]]
    /\ UNCHANGED <<heap, call, ncalls, kin, kout>>

\* the coroutine t takes its next step
Step(t) ==
    \/ fetch_api_get(t)
    \/ fetch_api_json(t)
    \/ fetch_api_update_all(t)
    \/ update_all_statement(t)
    \/ fetch_api_return(t)

NextTasks == \E t \in Tasks : Step(t)

SpecTasks == InitTasks /\ [][NextTasks]_vars

(***************************************************************************)
(* C2.  What a path denotes in a document, stated without get_keys.        *)
(***************************************************************************)
\* the container v can be indexed by a key of this kind
Indexable(v, key) ==
    \/ v.t = "dict" /\ key.t = "str"
    \/ v.t \in {"list", "str"} /\ key.t = "int"

\* the key names an item of the container v (positions count from either end)
Present(v, key) ==
    \/ v.t = "dict" /\ \E e \in {v.kids[i] : i \in 1..Len(v.kids)} : e.k = key.a
    \/ v.t \in {"list", "str"} /\ -PyLen(v) <= key.n /\ key.n < PyLen(v)

Position(v, key) == IF key.n < 0 THEN PyLen(v) + key.n + 1 ELSE key.n + 1

\* the item of v the key names
Child(v, key) ==
    CASE v.t = "dict" -> (CHOOSE e \in {v.kids[i] : i \in 1..Len(v.kids)} : e.k = key.a).v
      [] v.t = "list" -> v.kids[Position(v, key)].v
      [] v.t = "str"  -> Str(v.cs[Position(v, key)], <<v.cs[Position(v, key)]>>)

RECURSIVE ValueAt(_, _, _)
\* the value the first n keys of p lead to in d
ValueAt(d, p, n) == IF n = 0 THEN d ELSE Child(ValueAt(d, p, n - 1), p[n])

RECURSIVE Resolves(_, _, _)
\* no prefix of the first n keys of p is absent or non-indexable in d
Resolves(d, p, n) ==
    \/ n = 0
    \/ /\ Resolves(d, p, n - 1)
       /\ Indexable(ValueAt(d, p, n - 1), p[n])
       /\ Present(ValueAt(d, p, n - 1), p[n])

\* C2: get_keys(d, p) is the sentinel exactly when some prefix of p is absent
\* or non-indexable in d, and otherwise it is the nested value at p.
C2_GetKeysExact ==
    kout.done =>
        LET ok == Resolves(kin.d, kin.keys, Len(kin.keys))
        IN  /\ IsNotFound(kout.v) <=> ~ok
            /\ ok => kout.v = ValueAt(kin.d, kin.keys, Len(kin.keys))

\* C2 witness: a three-key path that resolves, its last key a position
C2_Witness ==
    /\ kout.done
    /\ Len(kin.keys) = 3
    /\ kin.keys[3].t = "int"
    /\ ~IsNotFound(kout.v)
    /\ kout.v.t = "str"

(***************************************************************************)
(* Vocabulary of the claims about resources.                               *)
(***************************************************************************)
SlotsOf(cls) ==
    CASE cls \in {"User", "Author", "StudioUser"} -> User_slots
      [] cls \in {"Project", "StudioProject"} -> Project_slots
      [] cls = "Studio" -> Studio_slots
      [] OTHER -> Comment_slots

\* the plain field slots of a class, each with the path it is read from
PlainSlots(cls) == {s \in {SlotsOf(cls)[i] : i \in 1..Len(SlotsOf(cls))} : s.k # "author"}

TimeSlots(cls) == {s \in PlainSlots(cls) : s.k = "time"}

\* the response body carries a value for the slot
Carries(body, slot) == Resolves(body, slot.path, Len(slot.path))

Carried(body, slot) == ValueAt(body, slot.path, Len(slot.path))

\* the body carries the API's marker code == "NotFound"
HasNotFoundCode(body) ==
    /\ body.t = "dict"
    /\ \E i \in 1..Len(body.kids) :
        /\ body.kids[i].k = "code"
        /\ body.kids[i].v.t = "str"
        /\ body.kids[i].v.a = "NotFound"

TopFetches   == {"fetch_user", "fetch_project", "fetch_studio", "fetch_message_count"}
Refreshes    == {"User.fetch_api", "Project.fetch_api", "Studio.fetch_api"}
Merges       == Refreshes \cup {"Comment._update_all"}
ListFetches  ==
    {"User.fetch_favorites", "User.fetch_followers", "User.fetch_following",
     "User.fetch_projects", "Project.fetch_comments", "Studio.fetch_projects",
     "Studio.fetch_comments", "Studio.fetch_managers", "Studio.fetch_curators",
     "Comment.fetch_replies"}
Constructions == {"fetch_user", "fetch_project", "fetch_studio", "Comment"}
CountFetches == {"Project.fetch_block_count", "Project.fetch_sprite_count"}

\* C1: across an update of a resource from a response, a slot that held a value
\* keeps a non-sentinel value, a slot the response lacks keeps its prior value,
\* and a slot at the sentinel that the response carries holds the response's value.
C1_NonRegression ==
    [][\A id \in DOMAIN heap : \A s \in PlainSlots(heap[id].cls) :
          /\ ~IsNotFound(heap[id].dict[s.name]) => ~IsNotFound(heap'[id].dict[s.name])
          /\ (call'.op \in Merges /\ call'.self = id) =>
                /\ ~Carries(call'.body, s) => heap'[id].dict[s.name] = heap[id].dict[s.name]
                /\ (IsNotFound(heap[id].dict[s.name]) /\ Carries(call'.body, s)) =>
                        heap'[id].dict[s.name] = Carried(call'.body, s)
      ]_vars

\* C3: a top-level fetch whose body carries code == "NotFound" raises
\* NotFoundError, returns nothing and builds no instance; one whose body carries
\* no such marker does not raise NotFoundError.
C3_TopLevelNotFound ==
    [][call'.op \in TopFetches =>
          /\ HasNotFoundCode(call'.body) =>
                /\ call'.raised = "NotFoundError"
                /\ call'.ret = None
                /\ heap' = heap
          /\ ~HasNotFoundCode(call'.body) => call'.raised # "NotFoundError"
      ]_vars

\* C3 witness: with instances already on the heap, fetch_project got the
\* not-found body and raised
C3_Witness ==
    /\ call.op = "fetch_project"
    /\ HasNotFoundCode(call.body)
    /\ call.raised = "NotFoundError"
    /\ Len(heap) > 0

\* C4: a fetch_block_count / fetch_sprite_count call made while the project's
\* project_json is populated issues no content GET.
C4_ContentCache ==
    [][(call'.op \in CountFetches /\ heap[call'.self].dict["project_json"] # None)
          => call'.gets = <<>>]_vars

\* the back-reference slots an instance has
BackRefsOf(o) == {"project", "studio"} \cap DOMAIN o.dict

KindOf(o) == o.dict["comment_type"].n

TemplateOf(n) == IF n = 0 THEN ProjectReplies ELSE IF n = 1 THEN StudioReplies ELSE "none"

\* C5 as stated: every Comment or Reply, of any kind, has exactly one
\* back-reference, the one of its kind, and its fetch_replies issues its GET
\* against the template of its kind.
C5_OneBackRefEveryKind ==
    /\ \A c \in Comments :
          /\ Cardinality(BackRefsOf(heap[c])) = 1
          /\ KindOf(heap[c]) = 0 => BackRefsOf(heap[c]) = {"project"}
          /\ KindOf(heap[c]) = 1 => BackRefsOf(heap[c]) = {"studio"}
    /\ call.op = "Comment.fetch_replies" =>
          call.gets = <<TemplateOf(KindOf(heap[call.self]))>>

\* C5 amended: a Project-kind or Studio-kind Comment or Reply has exactly the
\* back-reference slot of its kind and a Profile-kind one has neither; the only
\* GET its fetch_replies issues goes to the template of its kind, and it is
\* issued exactly when the back-reference is an instance.
C5_BackRefByKind ==
    /\ \A c \in Comments :
          /\ KindOf(heap[c]) = 0 => BackRefsOf(heap[c]) = {"project"}
          /\ KindOf(heap[c]) = 1 => BackRefsOf(heap[c]) = {"studio"}
          /\ KindOf(heap[c]) = 2 => BackRefsOf(heap[c]) = {}
    /\ call.op = "Comment.fetch_replies" =>
          LET o == heap[call.self]
          IN  /\ KindOf(o) = 0 =>
                    call.gets = IF o.dict["project"].t = "ref" THEN <<ProjectReplies>> ELSE <<>>
              /\ KindOf(o) = 1 =>
                    call.gets = IF o.dict["studio"].t = "ref" THEN <<StudioReplies>> ELSE <<>>
              /\ KindOf(o) = 2 => call.gets = <<>> /\ call.raised # ""

\* C5 witness: fetch_replies of a Studio-kind comment went to the studio template
C5_Witness ==
    /\ call.op = "Comment.fetch_replies"
    /\ KindOf(heap[call.self]) = 1
    /\ BackRefsOf(heap[call.self]) = {"studio"}
    /\ call.gets = <<StudioReplies>>

\* C6: every timestamp slot of every instance is the sentinel or a parsed
\* datetime, never the str of the response.
C6_TimestampsParsed ==
    \A id \in DOMAIN heap : \A s \in TimeSlots(heap[id].cls) :
        heap[id].dict[s.name].t \in {"NotFound", "datetime"}

\* C7: a refresh or list operation of a resource whose body carries
\* code == "NotFound" raises NotFoundError.
C7_SubFetchNotFound ==
    (call.op \in Refreshes \cup ListFetches /\ HasNotFoundCode(call.body))
        => call.raised = "NotFoundError"

\* C8: constructing a resource from a JSON object that lacks any of its fields
\* raises nothing, and every slot the object lacks reads as the sentinel.
C8_NoFieldRequired ==
    (call.op \in Constructions /\ call.body.t = "dict" /\ ~HasNotFoundCode(call.body)) =>
        /\ call.raised = ""
        /\ \A s \in PlainSlots(heap[call.ret.n].cls) :
              ~Carries(call.body, s) => IsNotFound(heap[call.ret.n].dict[s.name])

\* the identities a list operation returned
Returned_ids == {call.ret.kids[i].v.n : i \in 1..Len(call.ret.kids)}

C10_StudioRefresh ==
    (call.op = "Studio.fetch_api" /\ call.body.t = "dict" /\ ~HasNotFoundCode(call.body)) =>
        /\ call.raised = ""
        /\ \A s \in PlainSlots("Studio") :
              Carries(call.body, s) => heap[call.self].dict[s.name] = Carried(call.body, s)

\* the Author instance the author slot of the instance h[id] refers to
AuthorOf(h, id) == h[h[id].dict["author"].n]

\* the body nests an author object, and that object carries no value for the slot
StubLacks(body, s) ==
    /\ Carries(body, Author(Path1("author")))
    /\ Carried(body, Author(Path1("author"))).t = "dict"
    /\ ~Carries(Carried(body, Author(Path1("author"))), s)

\* C12: across a refresh of a Project, or an _update_all of a Comment, whose
\* body nests an author stub, every field of the owner's author that held a
\* value and that the stub lacks still holds that value afterwards.
C12_AuthorNeverReset ==
    [][(/\ call'.op \in {"Project.fetch_api", "Comment._update_all"}
        /\ heap[call'.self].dict["author"].t = "ref")
          => \A s \in PlainSlots("Author") :
                (/\ StubLacks(call'.body, s)
                 /\ ~IsNotFound(AuthorOf(heap, call'.self).dict[s.name]))
                    => AuthorOf(heap', call'.self).dict[s.name]
                            = AuthorOf(heap, call'.self).dict[s.name]
      ]_vars

\* the fetch_api call of coroutine t has executed statement k of _update_all
Assigned(t, k) ==
    \/ tasks[t].pc = "merge" /\ tasks[t].i > k
    \/ tasks[t].pc = "idle" /\ tasks[t].data # None

\* the instance holds the slot as the body gives it
Holds(o, body, slot) == Carries(body, slot) /\ o.dict[slot.name] = Carried(body, slot)

\* two fetch_api calls on one instance whose responses both carry the fields f
\* and g, with different values, and the instance holds f as the one call took
\* it from its response and g as the other call took it from its own
Mixed ==
    \E t, u \in Tasks : \E f, g \in 1..Len(User_slots) :
        /\ t # u
        /\ tasks[t].self = tasks[u].self
        /\ Assigned(t, f)
        /\ Assigned(u, g)
        /\ Holds(heap[tasks[t].self], tasks[t].data, User_slots[f])
        /\ Holds(heap[tasks[u].self], tasks[u].data, User_slots[g])
        /\ Carries(tasks[t].data, User_slots[g])
        /\ Carries(tasks[u].data, User_slots[f])
        /\ Carried(tasks[t].data, User_slots[f]) # Carried(tasks[u].data, User_slots[f])
        /\ Carried(tasks[t].data, User_slots[g]) # Carried(tasks[u].data, User_slots[g])

\* a coroutine is between two statements of _update_all
Merging(t) == tasks[t].pc = "merge" /\ 1 < tasks[t].i /\ tasks[t].i <= Len(User_slots)

====
